---- MODULE Spec2Model ----
(***************************************************************************)
(* The two scripts of the repository:                                      *)
(*   scripts/make_phase_portrait_emergent_time.py  (integrate_vdp, main)   *)
(*   scripts/phase_limit_cycle.py                  (module-level loop)     *)
(*                                                                         *)
(* Numbers.  A Python float / numpy float64 is modelled by a small number  *)
(* format with the IEEE-754 special values: the representable finite       *)
(* values are the integers -FMax..FMax, a finite result beyond FMax        *)
(* overflows to +inf or -inf, and NaN is produced and propagated as in     *)
(* IEEE-754.  On integer-valued inputs +, - and * of binary64 are exact,   *)
(* so inside the range the model computes what the code computes; FMax     *)
(* stands for sys.float_info.max.  A value is encoded as an integer:       *)
(* -FMax..FMax is itself, PosInf, NegInf and NaN are the codes beyond.     *)
(***************************************************************************)
EXTENDS Integers, Sequences, FiniteSets, TLC

\* ------------------------------------------------------------------ bounds
FMax == 1000
MaxSteps == 12
MaxPendulumSteps == 4

\* ------------------------------------------------------- program constants
\* "if len(xs_cy) > 10"
CycleArrowMin == 10
\* "idx1 = len(xs_cy) // 5", "idx2 = len(xs_cy) // 2"
Idx1Div == 5
Idx2Div == 2
\* "j = min(4000, len(xs_tr) - 1)"
ArrowIndexCap == 4000
\* "checkpoint = max(1, steps // 20)"
CheckpointDiv == 20
\* "pct = int(100 * (i + 1) / steps)"
PctScale == 100

\* ------------------------------------------------------------------ floats
PosInf == FMax + 1
NegInf == 0 - (FMax + 1)
NaN == FMax + 2
\* a slot of np.empty that no statement has written yet
Uninit == FMax + 3

Max(a, b) == IF a >= b THEN a ELSE b
Min(a, b) == IF a <= b THEN a ELSE b

IsNaN(a) == a = NaN
IsInf(a) == a = PosInf \/ a = NegInf
IsFinite(a) == a >= 0 - FMax /\ a <= FMax
FloatSign(a) == IF a > 0 THEN 1 ELSE IF a < 0 THEN 0 - 1 ELSE 0

\* a finite exact result, rounded into the format: overflow gives +-inf
FloatRound(n) == IF n > FMax THEN PosInf ELSE IF n < 0 - FMax THEN NegInf ELSE n

FNeg(a) ==
    IF IsNaN(a) THEN NaN
    ELSE IF a = PosInf THEN NegInf
    ELSE IF a = NegInf THEN PosInf
    ELSE 0 - a

\* binary64 addition: NaN propagates, inf + (-inf) = NaN, inf + finite = inf
FAdd(a, b) ==
    IF IsNaN(a) \/ IsNaN(b) THEN NaN
    ELSE IF IsInf(a) /\ IsInf(b) THEN (IF a = b THEN a ELSE NaN)
    ELSE IF IsInf(a) THEN a
    ELSE IF IsInf(b) THEN b
    ELSE FloatRound(a + b)

FSub(a, b) == FAdd(a, FNeg(b))

\* binary64 multiplication: NaN propagates, inf * 0 = NaN, inf * x = +-inf
FMul(a, b) ==
    IF IsNaN(a) \/ IsNaN(b) THEN NaN
    ELSE IF IsInf(a) \/ IsInf(b)
         THEN (IF a = 0 \/ b = 0 THEN NaN
               ELSE IF FloatSign(a) * FloatSign(b) > 0 THEN PosInf ELSE NegInf)
    ELSE FloatRound(a * b)

\* ------------------------------------------------------------ numpy, Python
\* np.empty(int(steps), dtype=float): an array of n unwritten slots;
\* a negative n raises ValueError("negative dimensions are not allowed")
\* variant: one slot too many
NpEmpty_OffByOne(n) ==
    IF n < 0 THEN [err |-> "ValueError", arr |-> << >>]
    ELSE [err |-> "none", arr |-> [k \in 1..(n + 1) |-> Uninit]]

\* variant: a negative length is taken as no slots instead of being rejected
NpEmpty_AcceptsNegative(n) ==
    [err |-> "none", arr |-> [k \in 1..n |-> Uninit]]

NpEmpty(n) ==
    IF n < 0 THEN [err |-> "ValueError", arr |-> << >>]
    ELSE [err |-> "none", arr |-> [k \in 1..n |-> Uninit]]

\* a Python slice bound k on a sequence of length n, normalised to 0..n
PySliceBound(k, n) == IF k < 0 THEN Max(0, k + n) ELSE Min(k, n)

\* s[:k]
SliceTo(s, k) == SubSeq(s, 1, PySliceBound(k, Len(s)))
\* variant: the suffix starts one element late
SliceFrom_OffByOne(s, k) == SubSeq(s, PySliceBound(k, Len(s)) + 2, Len(s))

\* s[k:]
SliceFrom(s, k) == SubSeq(s, PySliceBound(k, Len(s)) + 1, Len(s))

\* s[k] is defined for -len(s) <= k < len(s); IndexError otherwise
PyIndexOk(s, k) == k >= 0 - Len(s) /\ k < Len(s)
PyIndex(s, k) == IF k < 0 THEN s[Len(s) + k + 1] ELSE s[k + 1]

\* --------------------------------------------------------------- the state
VARIABLES
    script,      \* which script runs: "portrait" or "pendulum"
    pc,          \* position in the script
    args,        \* argparse namespace of main / parameter block of the pendulum script
    x, v,        \* integrate_vdp locals
    phi, phidot, \* the pendulum script's state
    xs, vs,      \* integrate_vdp output arrays
    i,           \* loop index: iterations completed
    checkpoint,  \* integrate_vdp local
    out,         \* what was printed: the progress notifications
    err,         \* the exception that ended the script, "none" if none
    seg,         \* main locals after the split: transient, xs_tr, vs_tr, xs_cy, vs_cy
    pts,         \* main locals idx1, idx2, pt1, pt2, j, arrow point
    phi_list,    \* the pendulum script's list
    run,         \* two-run harness: which invocation of integrate_vdp is running
    first        \* two-run harness: what the first invocation returned

vars == <<script, pc, args, x, v, phi, phidot, xs, vs, i, checkpoint, out, err,
          seg, pts, phi_list, run, first>>

NoSeg == [transient |-> 0, xs_tr |-> << >>, vs_tr |-> << >>, xs_cy |-> << >>, vs_cy |-> << >>]
NoFirst == [xs |-> << >>, vs |-> << >>, i |-> 0, err |-> "none", out |-> << >>]
NoPts == [idx1 |-> 0 - 1, idx2 |-> 0 - 1, pt1 |-> << >>, pt2 |-> << >>, j |-> 0 - 1, arrow |-> << >>]

\* ----------------------------------------------------------- Van der Pol
\* a = mu * (1.0 - x * x) * v - x
VdpAccel(mu, px, pv) == FSub(FMul(FMul(mu, FSub(1, FMul(px, px))), pv), px)

\* variant: plain forward Euler, the position uses the old velocity
SemiImplicitEuler_Forward(a, px, pv, dt) ==
    [v |-> FAdd(pv, FMul(a, dt)), x |-> FAdd(px, FMul(pv, dt))]

\* v += a * dt ; x += v * dt   (the position uses the updated velocity)
SemiImplicitEuler(a, px, pv, dt) ==
    LET v1 == FAdd(pv, FMul(a, dt))
    IN [v |-> v1, x |-> FAdd(px, FMul(v1, dt))]

\* lines 33-41: locals, the two output arrays, the checkpoint
IntegrateEnter ==
    /\ script = "portrait"
    /\ pc = "call"
    /\ x' = args.x0
    /\ v' = args.v0
    /\ LET e == NpEmpty(args.steps)
       IN IF e.err # "none"
          THEN /\ err' = e.err
               /\ pc' = "raised"
               /\ UNCHANGED <<xs, vs, checkpoint>>
          ELSE /\ xs' = e.arr
               /\ vs' = e.arr
               /\ checkpoint' = Max(1, args.steps \div CheckpointDiv)
               /\ pc' = "loop"
               /\ err' = err
    /\ i' = 0
    /\ UNCHANGED <<script, args, phi, phidot, out, seg, pts, phi_list, run, first>>

\* variant: the pair is stored before it is updated
IntegrateStep_RecordsBefore ==
    /\ script = "portrait"
    /\ pc = "loop"
    /\ i < args.steps
    /\ LET a == VdpAccel(args.mu, x, v)
           s == SemiImplicitEuler(a, x, v, args.dt)
       IN /\ v' = s.v
          /\ x' = s.x
          /\ xs' = [xs EXCEPT ![i + 1] = x]
          /\ vs' = [vs EXCEPT ![i + 1] = v]
    /\ out' = IF args.show_progress /\ (i % checkpoint = 0 \/ i = args.steps - 1)
              THEN Append(out, [text |-> "Integrating", pct |-> (PctScale * (i + 1)) \div args.steps])
              ELSE out
    /\ i' = i + 1
    /\ UNCHANGED <<script, pc, args, phi, phidot, checkpoint, err, seg, pts, phi_list,
                   run, first>>

\* variant: x ** 2 in place of x * x, which raises OverflowError on a Python float
IntegrateStep_PowRaises ==
    /\ script = "portrait"
    /\ pc = "loop"
    /\ i < args.steps
    /\ IF IsFinite(x) /\ IsInf(FMul(x, x))
       THEN /\ err' = "OverflowError"
            /\ pc' = "raised"
            /\ UNCHANGED <<x, v, xs, vs, out, i>>
       ELSE /\ LET a == VdpAccel(args.mu, x, v)
                   s == SemiImplicitEuler(a, x, v, args.dt)
               IN /\ v' = s.v
                  /\ x' = s.x
                  /\ xs' = [xs EXCEPT ![i + 1] = s.x]
                  /\ vs' = [vs EXCEPT ![i + 1] = s.v]
            /\ out' = IF args.show_progress /\ (i % checkpoint = 0 \/ i = args.steps - 1)
                      THEN Append(out, [text |-> "Integrating", pct |-> (PctScale * (i + 1)) \div args.steps])
                      ELSE out
            /\ i' = i + 1
            /\ UNCHANGED <<err, pc>>
    /\ UNCHANGED <<script, args, phi, phidot, checkpoint, seg, pts, phi_list, run, first>>

\* variant: an iteration that reports progress skips the two stores
IntegrateStep_ProgressSkips ==
    /\ script = "portrait"
    /\ pc = "loop"
    /\ i < args.steps
    /\ LET a == VdpAccel(args.mu, x, v)
           s == SemiImplicitEuler(a, x, v, args.dt)
           p == args.show_progress /\ (i % checkpoint = 0 \/ i = args.steps - 1)
       IN /\ v' = s.v
          /\ x' = s.x
          /\ xs' = IF p THEN xs ELSE [xs EXCEPT ![i + 1] = s.x]
          /\ vs' = IF p THEN vs ELSE [vs EXCEPT ![i + 1] = s.v]
          /\ out' = IF p
                    THEN Append(out, [text |-> "Integrating", pct |-> (PctScale * (i + 1)) \div args.steps])
                    ELSE out
    /\ i' = i + 1
    /\ UNCHANGED <<script, pc, args, phi, phidot, checkpoint, err, seg, pts, phi_list,
                   run, first>>

\* lines 43-52: one iteration of "for i in range(steps)"
IntegrateStep ==
    /\ script = "portrait"
    /\ pc = "loop"
    /\ i < args.steps
    /\ LET a == VdpAccel(args.mu, x, v)
           s == SemiImplicitEuler(a, x, v, args.dt)
       IN /\ v' = s.v
          /\ x' = s.x
          /\ xs' = [xs EXCEPT ![i + 1] = s.x]
          /\ vs' = [vs EXCEPT ![i + 1] = s.v]
    /\ out' = IF args.show_progress /\ (i % checkpoint = 0 \/ i = args.steps - 1)
              THEN Append(out, [text |-> "Integrating", pct |-> (PctScale * (i + 1)) \div args.steps])
              ELSE out
    /\ i' = i + 1
    /\ UNCHANGED <<script, pc, args, phi, phidot, checkpoint, err, seg, pts, phi_list,
                   run, first>>

\* lines 54-57: the loop is over; "Done." and return xs, vs
IntegrateReturn ==
    /\ script = "portrait"
    /\ pc = "loop"
    /\ i >= args.steps
    /\ out' = IF args.show_progress THEN Append(out, [text |-> "Done.", pct |-> PctScale]) ELSE out
    /\ pc' = "segment"
    /\ UNCHANGED <<script, args, x, v, phi, phidot, xs, vs, i, checkpoint, err,
                   seg, pts, phi_list, run, first>>

\* ------------------------------------------------------------------ main
\* variant: the upper clamp is missing
ClampTransient_NoUpper(k, n) == Max(0, k)

\* "transient = max(0, min(transient, len(xs) - 1))"
ClampTransient(k, n) == Max(0, Min(k, n - 1))

\* lines 90-96: split into transient + limit cycle segment
Segment ==
    /\ script = "portrait"
    /\ pc = "segment"
    /\ LET transient == ClampTransient(args.transient, Len(xs))
       IN seg' = [transient |-> transient,
                  xs_tr |-> SliceTo(xs, transient),
                  vs_tr |-> SliceTo(vs, transient),
                  xs_cy |-> SliceFrom(xs, transient),
                  vs_cy |-> SliceFrom(vs, transient)]
    /\ pc' = "points"
    /\ UNCHANGED <<script, args, x, v, phi, phidot, xs, vs, i, checkpoint, out, err,
                   pts, phi_list, run, first>>

\* lines 137-145: representative points on the limit cycle
ChoosePoints ==
    /\ script = "portrait"
    /\ pc = "points"
    /\ IF Len(seg.xs_cy) > CycleArrowMin
       THEN LET idx1 == Len(seg.xs_cy) \div Idx1Div
                idx2 == Len(seg.xs_cy) \div Idx2Div
            IN IF PyIndexOk(seg.xs_cy, idx1) /\ PyIndexOk(seg.vs_cy, idx1)
                  /\ PyIndexOk(seg.xs_cy, idx2) /\ PyIndexOk(seg.vs_cy, idx2)
               THEN /\ pts' = [pts EXCEPT
                                 !.idx1 = idx1,
                                 !.idx2 = idx2,
                                 !.pt1 = <<PyIndex(seg.xs_cy, idx1), PyIndex(seg.vs_cy, idx1)>>,
                                 !.pt2 = <<PyIndex(seg.xs_cy, idx2), PyIndex(seg.vs_cy, idx2)>>]
                    /\ pc' = "arrow"
                    /\ err' = err
               ELSE /\ pts' = [pts EXCEPT !.idx1 = idx1, !.idx2 = idx2]
                    /\ pc' = "raised"
                    /\ err' = "IndexError"
       ELSE IF PyIndexOk(xs, 0 - 1) /\ PyIndexOk(vs, 0 - 1)
            THEN /\ pts' = [pts EXCEPT
                              !.pt1 = <<PyIndex(xs, 0 - 1), PyIndex(vs, 0 - 1)>>,
                              !.pt2 = <<PyIndex(xs, 0 - 1), PyIndex(vs, 0 - 1)>>]
                 /\ pc' = "arrow"
                 /\ err' = err
            ELSE /\ pts' = pts
                 /\ pc' = "raised"
                 /\ err' = "IndexError"
    /\ UNCHANGED <<script, args, x, v, phi, phidot, xs, vs, i, checkpoint, out, seg,
                   phi_list, run, first>>

\* variant: the "- 1" is missing
ArrowIndex_NoMinusOne(n_tr) == IF n_tr > 0 THEN Min(ArrowIndexCap, n_tr) ELSE 0

\* "j = min(4000, len(xs_tr) - 1) if len(xs_tr) > 0 else 0"
ArrowIndex(n_tr) == IF n_tr > 0 THEN Min(ArrowIndexCap, n_tr - 1) ELSE 0

\* lines 165-174: the point of the "arrow of time" annotation, xy=(xs[j], vs[j])
ArrowOfTime ==
    /\ script = "portrait"
    /\ pc = "arrow"
    /\ LET j == ArrowIndex(Len(seg.xs_tr))
       IN IF PyIndexOk(xs, j) /\ PyIndexOk(vs, j)
          THEN /\ pts' = [pts EXCEPT !.j = j, !.arrow = <<PyIndex(xs, j), PyIndex(vs, j)>>]
               /\ pc' = "done"
               /\ err' = err
          ELSE /\ pts' = [pts EXCEPT !.j = j]
               /\ pc' = "raised"
               /\ err' = "IndexError"
    /\ UNCHANGED <<script, args, x, v, phi, phidot, xs, vs, i, checkpoint, out, seg,
                   phi_list, run, first>>

\* ------------------------------------------------- phase_limit_cycle.py
\* np.sin on the number format: the correctly rounded sine of an integer
\* argument is -1, 0 or 1 (|sin| >= 1/2 rounds away from 0); the argument is
\* reduced modulo 2*pi with pi = 355/113; sin(+-inf) = sin(NaN) = NaN
NpSin(a) ==
    IF ~IsFinite(a) THEN NaN
    ELSE LET r == (113 * a) % 710
         IN IF r >= 60 /\ r <= 295 THEN 1
            ELSE IF r >= 415 /\ r <= 650 THEN 0 - 1
            ELSE 0

\* a ** 2
Pow2(a) == FMul(a, a)

\* a ** 2 on a Python float raises OverflowError when a finite a overflows;
\* on a numpy float64 it gives inf (with a warning)
PyPowOverflows(a) == IsFinite(a) /\ IsInf(Pow2(a))

\* phiddot = -epsilon*(phi**2 - 1)*phidot - omega0**2*np.sin(phi)
PendulumAccel(epsilon, omega0, pphi, pphidot) ==
    FSub(FMul(FMul(FNeg(epsilon), FSub(Pow2(pphi), 1)), pphidot),
         FMul(Pow2(omega0), NpSin(pphi)))

\* variant: the list receives the velocity instead of the position
PendulumStep_AppendsVelocity ==
    /\ script = "pendulum"
    /\ pc = "loop"
    /\ i < args.steps
    /\ IF (i = 0 /\ PyPowOverflows(phi)) \/ PyPowOverflows(args.omega0)
       THEN /\ err' = "OverflowError"
            /\ pc' = "raised"
            /\ UNCHANGED <<phi, phidot, phi_list, i>>
       ELSE LET phiddot == PendulumAccel(args.epsilon, args.omega0, phi, phidot)
                s == SemiImplicitEuler(phiddot, phi, phidot, args.dt)
            IN /\ phidot' = s.v
               /\ phi' = s.x
               /\ phi_list' = Append(phi_list, s.v)
               /\ i' = i + 1
               /\ UNCHANGED <<err, pc>>
    /\ UNCHANGED <<script, args, x, v, xs, vs, checkpoint, out, seg, pts, run, first>>

\* lines 17-21: one iteration of "for _ in trange(steps)".  phi is a Python
\* float in the first iteration and a numpy float64 afterwards (np.sin
\* returns one); omega0 stays a Python float.
PendulumStep ==
    /\ script = "pendulum"
    /\ pc = "loop"
    /\ i < args.steps
    /\ IF (i = 0 /\ PyPowOverflows(phi)) \/ PyPowOverflows(args.omega0)
       THEN /\ err' = "OverflowError"
            /\ pc' = "raised"
            /\ UNCHANGED <<phi, phidot, phi_list, i>>
       ELSE LET phiddot == PendulumAccel(args.epsilon, args.omega0, phi, phidot)
                s == SemiImplicitEuler(phiddot, phi, phidot, args.dt)
            IN /\ phidot' = s.v
               /\ phi' = s.x
               /\ phi_list' = Append(phi_list, s.x)
               /\ i' = i + 1
               /\ UNCHANGED <<err, pc>>
    /\ UNCHANGED <<script, args, x, v, xs, vs, checkpoint, out, seg, pts, run, first>>

\* line 23: the loop is over; phi_arr = np.array(phi_list) is what gets plotted
PendulumDone ==
    /\ script = "pendulum"
    /\ pc = "loop"
    /\ i >= args.steps
    /\ pc' = "done"
    /\ UNCHANGED <<script, args, x, v, phi, phidot, xs, vs, i, checkpoint, out, err,
                   seg, pts, phi_list, run, first>>

\* ------------------------------------------------------------ two runs
\* integrate_vdp invoked once more with the same mu, dt, steps, x0, v0 and
\* any show_progress; what the first invocation produced is kept in first
SecondRun ==
    /\ script = "portrait"
    /\ run = 1
    /\ pc \in {"segment", "raised"}
    /\ first' = [xs |-> xs, vs |-> vs, i |-> i, err |-> err, out |-> out]
    /\ run' = 2
    /\ \E b \in BOOLEAN : args' = [args EXCEPT !.show_progress = b]
    /\ pc' = "call"
    /\ x' = Uninit
    /\ v' = Uninit
    /\ xs' = << >>
    /\ vs' = << >>
    /\ i' = 0
    /\ checkpoint' = 0
    /\ out' = << >>
    /\ err' = "none"
    /\ UNCHANGED <<script, phi, phidot, seg, pts, phi_list>>

\* ------------------------------------------------------- initial states
MuSet == {0, 1}
DtSet == {0, 1}
X0Set == {0, 1, 2, PosInf}
V0Set == {0, 1, NaN}
StepsSet == (0 - 1)..MaxSteps
TransientSet == {0 - 2, 0, 1, MaxSteps - 2, MaxSteps - 1, MaxSteps + 3}

PortraitArgs ==
    [mu : MuSet, dt : DtSet, steps : StepsSet, x0 : X0Set, v0 : V0Set,
     show_progress : BOOLEAN, transient : TransientSet]

\* a run long enough for the cap of the arrow-of-time index to apply
LongArgs ==
    [mu : {1}, dt : {1}, steps : {ArrowIndexCap + 3}, x0 : {2}, v0 : {0},
     show_progress : {TRUE}, transient : {ArrowIndexCap + 2}]

PendulumArgs ==
    [epsilon : {0, 1}, omega0 : {1, 2, FMax}, dt : {0, 1},
     steps : (0 - 1)..MaxPendulumSteps, phi : {0, 1, 2, FMax}, phidot : {0, 1}]

\* the state when main is about to call integrate_vdp (line 81)
InitPortrait(A) ==
    /\ script = "portrait"
    /\ pc = "call"
    /\ args \in A
    /\ x = Uninit
    /\ v = Uninit
    /\ phi = Uninit
    /\ phidot = Uninit
    /\ xs = << >>
    /\ vs = << >>
    /\ i = 0
    /\ checkpoint = 0
    /\ out = << >>
    /\ err = "none"
    /\ seg = NoSeg
    /\ pts = NoPts
    /\ phi_list = << >>
    /\ run = 1
    /\ first = NoFirst

\* the state of phase_limit_cycle.py before its loop (line 17)
InitPendulum ==
    /\ script = "pendulum"
    /\ pc = "loop"
    /\ args \in PendulumArgs
    /\ x = Uninit
    /\ v = Uninit
    /\ phi = args.phi
    /\ phidot = args.phidot
    /\ xs = << >>
    /\ vs = << >>
    /\ i = 0
    /\ checkpoint = 0
    /\ out = << >>
    /\ err = "none"
    /\ seg = NoSeg
    /\ pts = NoPts
    /\ phi_list = << >>
    /\ run = 1
    /\ first = NoFirst

Init == InitPortrait(PortraitArgs) \/ InitPendulum

InitLong == InitPortrait(PortraitArgs \cup LongArgs)

InitRuns == InitPortrait({a \in PortraitArgs : a.transient = 0})

Next ==
    \/ IntegrateEnter
    \/ IntegrateStep
    \/ IntegrateReturn
    \/ Segment
    \/ ChoosePoints
    \/ ArrowOfTime
    \/ PendulumStep
    \/ PendulumDone

NextPortrait ==
    \/ IntegrateEnter
    \/ IntegrateStep
    \/ IntegrateReturn
    \/ Segment
    \/ ChoosePoints
    \/ ArrowOfTime

NextRuns ==
    \/ IntegrateEnter
    \/ IntegrateStep
    \/ IntegrateReturn
    \/ SecondRun

\* both scripts, short runs
Spec == Init /\ [][Next]_vars

\* make_phase_portrait_emergent_time.py, short runs and one long run
SpecLong == InitLong /\ [][NextPortrait]_vars

\* integrate_vdp invoked twice on the same numeric inputs
SpecRuns == InitRuns /\ [][NextRuns]_vars

\* ---------------------------------------------------------------- claims
\* integrate_vdp has returned its two arrays to main
Returned ==
    /\ script = "portrait"
    /\ (pc \in {"segment", "points", "arrow", "done"} \/ err = "IndexError")

\* main has executed the split of lines 90-96
SplitDone ==
    /\ script = "portrait"
    /\ (pc \in {"points", "arrow", "done"} \/ err = "IndexError")

\* the pair after n update steps from (px, pv)
RECURSIVE VdpAfter(_, _, _, _, _)
VdpAfter(n, mu, dt, px, pv) ==
    IF n = 0 THEN [x |-> px, v |-> pv]
    ELSE LET p == VdpAfter(n - 1, mu, dt, px, pv)
             a == FSub(FMul(FMul(mu, FSub(1, FMul(p.x, p.x))), p.v), p.x)
             v1 == FAdd(p.v, FMul(a, dt))
         IN [x |-> FAdd(p.x, FMul(v1, dt)), v |-> v1]

NonFinitePair(k) == ~IsFinite(xs[k]) \/ ~IsFinite(vs[k])

\* C1: for every steps >= 0 integrate_vdp does not raise and returns xs and vs
\* with len(xs) = len(vs) = steps, every slot written; for steps = 0 both are
\* empty.
C1_LengthInvariant ==
    (script = "portrait" /\ args.steps >= 0) =>
        /\ err # "ValueError"
        /\ pc \in {"call", "loop"} => err = "none"
        /\ Returned =>
            /\ Len(xs) = args.steps
            /\ Len(vs) = args.steps
            /\ \A k \in 1..Len(xs) : xs[k] # Uninit /\ vs[k] # Uninit
            /\ args.steps = 0 => (xs = << >> /\ vs = << >>)

C1_Witness ==
    /\ Returned
    /\ args.steps = 0
    /\ args.show_progress
    /\ xs = << >>

\* C2: with steps = 1, for both laws, the acceleration is computed from the
\* initial pair, the velocity after the step is v0 + law(x0, v0)*dt and the
\* recorded position is x0 + (that new velocity)*dt.
C2_UpdateOrder ==
    /\ (Returned /\ args.steps = 1) =>
          LET a == VdpAccel(args.mu, args.x0, args.v0)
          IN /\ vs[1] = FAdd(args.v0, FMul(a, args.dt))
             /\ xs[1] = FAdd(args.x0, FMul(vs[1], args.dt))
    /\ (script = "pendulum" /\ pc = "done" /\ args.steps = 1) =>
          LET a == PendulumAccel(args.epsilon, args.omega0, args.phi, args.phidot)
          IN /\ phidot = FAdd(args.phidot, FMul(a, args.dt))
             /\ phi_list[1] = FAdd(args.phi, FMul(phidot, args.dt))

\* a one-step run whose result differs from what forward Euler would give
C2_Witness ==
    /\ Returned
    /\ args.steps = 1
    /\ IsFinite(xs[1])
    /\ xs[1] # FAdd(args.x0, FMul(args.v0, args.dt))

\* C3: index i of the output holds the pair after exactly i+1 update steps
\* from (x0, v0), in order; the slots not yet written hold nothing, so the
\* pair after zero steps is stored nowhere.
C3_PostUpdateStates ==
    (script = "portrait" /\ (pc = "loop" \/ Returned)) =>
        /\ \A k \in 1..i :
              LET p == VdpAfter(k, args.mu, args.dt, args.x0, args.v0)
              IN xs[k] = p.x /\ vs[k] = p.v
        /\ \A k \in (i + 1)..Len(xs) : xs[k] = Uninit /\ vs[k] = Uninit
        /\ Returned => i = Len(xs)

C3_Witness ==
    /\ Returned
    /\ args.steps >= 3
    /\ <<xs[1], vs[1]>> # <<args.x0, args.v0>>
    /\ xs[2] # xs[1]
    /\ IsFinite(xs[3])

\* C4: for a trajectory of length N >= 1 and any requested index k, the split
\* does not raise, the effective index is k clamped into 0..N-1, and the two
\* parts together have N elements.
C4_SegmentationClamping ==
    (SplitDone /\ Len(xs) >= 1) =>
        LET N == Len(xs)
            k == args.transient
        IN /\ seg.transient \in 0..(N - 1)
           /\ seg.transient = (IF k < 0 THEN 0 ELSE IF k > N - 1 THEN N - 1 ELSE k)
           /\ Len(seg.xs_tr) + Len(seg.xs_cy) = N
           /\ Len(seg.vs_tr) + Len(seg.vs_cy) = N
           /\ pc = "points" => err = "none"

C4_Witness ==
    /\ SplitDone
    /\ Len(xs) >= 2
    /\ args.transient > Len(xs) - 1
    /\ seg.transient = Len(xs) - 1

\* C5: with N = 0 both parts are empty and the split raises nothing; with
\* effective index 0 the transient is empty and the cycle is the whole
\* trajectory; with effective index N-1 (N >= 1) the cycle is not empty.
C5_DegenerateSegmentation ==
    SplitDone =>
        LET N == Len(xs)
        IN /\ N = 0 =>
                /\ seg.xs_tr = << >> /\ seg.vs_tr = << >>
                /\ seg.xs_cy = << >> /\ seg.vs_cy = << >>
                /\ pc = "points" => err = "none"
           /\ seg.transient = 0 =>
                /\ seg.xs_tr = << >> /\ seg.vs_tr = << >>
                /\ seg.xs_cy = xs /\ seg.vs_cy = vs
           /\ (N >= 1 /\ seg.transient = N - 1) =>
                /\ Len(seg.xs_cy) >= 1 /\ Len(seg.vs_cy) >= 1
                /\ Len(seg.xs_tr) = N - 1

C5_Witness ==
    /\ SplitDone
    /\ pc = "points"
    /\ Len(xs) = 0
    /\ args.transient > 0
    /\ seg.xs_cy = << >>

\* C6: with steps < 0 the call ends in ValueError and nothing of the
\* integration happens: no iteration, no array, no progress output, no return.
C6_NegativeStepsRejected ==
    (script = "portrait" /\ args.steps < 0) =>
        /\ pc \in {"call", "raised"}
        /\ pc = "raised" => err = "ValueError"
        /\ i = 0
        /\ xs = << >> /\ vs = << >>
        /\ out = << >>
        /\ x \in {Uninit, args.x0} /\ v \in {Uninit, args.v0}
        /\ seg = NoSeg /\ pts = NoPts

C6_Witness ==
    /\ script = "portrait"
    /\ args.steps < 0
    /\ args.show_progress
    /\ pc = "raised"
    /\ err = "ValueError"

\* C7: a second invocation with the same mu, dt, steps, x0, v0 gives the same
\* xs and vs, the same number of iterations and the same outcome as the first,
\* whatever show_progress is in either.
C7_Determinism ==
    (run = 2 /\ pc \in {"segment", "raised"}) =>
        /\ xs = first.xs
        /\ vs = first.vs
        /\ i = first.i
        /\ err = first.err

\* the first invocation silent, the second one reporting progress
C7_Witness ==
    /\ run = 2
    /\ pc = "segment"
    /\ args.steps >= 2
    /\ first.out = << >>
    /\ Len(out) >= 2
    /\ IsFinite(xs[2])

\* C8 as stated: the pendulum script ends with a recorded position sequence
\* and a recorded velocity sequence, each of length steps.  PendulumRecorded
\* are the sequences the script builds; a velocity record of length steps has
\* the final velocity at its end.
PendulumRecorded == {phi_list}

C9_BlowUpPropagates ==
    (script = "portrait" /\ args.steps >= 0) =>
        /\ err \in {"none", "IndexError"}
        /\ err = "IndexError" => (Returned /\ Len(xs) = 0)
        /\ pc = "raised" => err = "IndexError"
        /\ Returned => i = args.steps
        /\ \A k \in 1..i : \A m \in k..i : NonFinitePair(k) => NonFinitePair(m)
        /\ (i >= 1 /\ (~IsFinite(args.x0) \/ ~IsFinite(args.v0))) => NonFinitePair(1)

\* finite inputs, a finite first pair, and a blow-up before the end of the run
C9_Witness ==
    /\ Returned
    /\ args.steps >= 4
    /\ IsFinite(args.x0) /\ IsFinite(args.v0)
    /\ ~NonFinitePair(1)
    /\ NonFinitePair(args.steps - 1)
    /\ IsNaN(xs[args.steps])

\* C10: for N >= 1 and any --transient, main's indices after the split are in
\* bounds: idx1 and idx2 index the cycle when it has more than 10 points, the
\* last point exists otherwise, and 0 <= j < N with j inside the transient
\* when the transient is not empty; no IndexError is raised.
C10_IndicesInBounds ==
    (SplitDone /\ Len(xs) >= 1) =>
        /\ err = "none"
        /\ pc # "raised"
        /\ (pc \in {"arrow", "done"} /\ Len(seg.xs_cy) > CycleArrowMin) =>
              /\ pts.idx1 >= 0 /\ pts.idx1 < Len(seg.xs_cy)
              /\ pts.idx2 >= 0 /\ pts.idx2 < Len(seg.xs_cy)
        /\ (pc \in {"arrow", "done"} /\ Len(seg.xs_cy) <= CycleArrowMin) =>
              pts.pt1 = <<xs[Len(xs)], vs[Len(vs)]>>
        /\ pc = "done" =>
              /\ pts.j >= 0 /\ pts.j < Len(xs)
              /\ Len(seg.xs_tr) > 0 => pts.j < Len(seg.xs_tr)

\* a run whose cycle has more than 10 points and whose transient is not empty
C10_Witness ==
    /\ script = "portrait"
    /\ pc = "done"
    /\ Len(seg.xs_cy) > CycleArrowMin
    /\ pts.idx1 = Len(seg.xs_cy) \div Idx1Div
    /\ pts.idx2 = Len(seg.xs_cy) \div Idx2Div
    /\ Len(seg.xs_tr) > 0
    /\ pts.j = Len(seg.xs_tr) - 1

\* the run in which the cap of the arrow-of-time index applies (reached in
\* SpecLong after ArrowIndexCap + 3 iterations of the loop)
C10_CapApplies ==
    /\ script = "portrait"
    /\ pc = "done"
    /\ Len(seg.xs_tr) > ArrowIndexCap + 1
    /\ pts.j = ArrowIndexCap

====
